---- MODULE Spec2Model ----
(***************************************************************************)
(* Model of the NATS Streaming benchmark harness (src/main/main.go):       *)
(* main's two barriers (startwg, donewg), the publisher workers            *)
(* (runPublisher, sync and async with the acb acknowledgment callback),    *)
(* the subscriber workers (runSubscriber with the mcb delivery callback,   *)
(* the two-slot channel ch and the queue-group sentinel handshake on       *)
(* qTotalRecv / qSubsLeft), and the benchmark sample aggregator.           *)
(*                                                                         *)
(* The messaging server is the environment: a published message is queued  *)
(* to every open plain subscription, or to the queue group's pool from     *)
(* which exactly one open member takes it.  log.Fatal ends the process:    *)
(* aborted becomes TRUE and no goroutine takes another step.               *)
(***************************************************************************)
EXTENDS Integers, Sequences, FiniteSets

\* ------------------------------------------------------------------ bounds
MaxPubs == 2
MaxSubs == 2
MaxMsgs == 2
MaxRetained == 1
MaxShareTotal == 12
MaxShareClients == 8

\* Program constants: the default of -mpa (line 41) and the capacity of the
\* subscriber's channel, make(chan time.Time, 2) (line 227).
DefaultMaxPubAcksInflight == 512
ChanCap == 2

Pubs == 1..MaxPubs
Subs == 1..MaxSubs

VARIABLES
  flags,        \* the parsed command line: np, ns, n, sync, queue, io
  retained,     \* messages the subject already holds when the run starts
  mainPc,       \* main's position
  startwg,      \* sync.WaitGroup counter
  donewg,       \* sync.WaitGroup counter
  aborted,      \* log.Fatal / log.Fatalf was called: the process exited
  failed,       \* some connect, subscribe or publish call returned an error
  qTotalRecv,   \* package variable, atomic
  qSubsLeft,    \* package variable, atomic
  pubCounts,    \* bench.MsgsPerClient(numMsgs, numPubs)
  pubPc,        \* each publisher goroutine's position
  pubNumMsgs,   \* runPublisher's numMsgs parameter
  pubI,         \* the publish loops' i
  published,    \* runPublisher's published
  acksPending,  \* PublishAsync calls whose ack has not arrived yet
  acbSending,   \* acb is blocked in ch <- true
  subPc,        \* each subscriber goroutine's position
  subOpen,      \* the subscription is open on the server
  received,     \* runSubscriber's received
  ch,           \* runSubscriber's ch (buffered, capacity 2): the times sent, see TimeNow
  cbPc,         \* position of the running mcb invocation, "idle" when none
  subStart,     \* runSubscriber's start
  subEnd,       \* runSubscriber's end
  inbox,        \* messages queued to a plain subscription
  qPending,     \* messages queued to the queue group
  groupMade,    \* the queue group exists on the server
  pubSamples,   \* samples handed to benchmark.AddPubSample, per publisher
  subSamples,   \* samples handed to benchmark.AddSubSample, per subscriber
  closed,       \* benchmark.Close() was called
  reported,     \* benchmark.Report() was printed
  sentinels,    \* "done" messages published, per subscriber
  endSignals,   \* per subscriber: the deliveries (values of received) whose mcb sent the end time
  observedN,    \* how many atomic.AddInt32(&qTotalRecv, 1) calls returned exactly numMsgs
  shTotal,      \* MsgsPerClient study: numMsgs
  shClients,    \* MsgsPerClient study: numClients
  shCounts,     \* MsgsPerClient study: the result
  shDone        \* MsgsPerClient study: the result was computed

cfgVars == <<flags, retained>>
mainVars == <<mainPc, startwg, donewg, pubCounts, closed, reported>>
pubVars == <<pubPc, pubNumMsgs, pubI, published, acksPending, acbSending>>
subVars == <<subPc, subOpen, received, ch, cbPc, subStart, subEnd>>
srvVars == <<inbox, qPending, groupMade>>
aggVars == <<pubSamples, subSamples>>
ghostVars == <<sentinels, endSignals, observedN>>
shVars == <<shTotal, shClients, shCounts, shDone>>

vars == <<flags, retained, mainPc, startwg, donewg, aborted, failed, qTotalRecv,
          qSubsLeft, pubCounts, pubPc, pubNumMsgs, pubI, published,
          acksPending, acbSending, subPc, subOpen, received, ch, cbPc,
          subStart, subEnd, inbox, qPending, groupMade, pubSamples, subSamples,
          closed, reported, sentinels, endSignals, observedN,
          shTotal, shClients, shCounts, shDone>>

numPubs == flags.np
numSubs == flags.ns
numMsgs == flags.n
syncPub == flags.sync
isQueue == flags.queue
ignoreOld == flags.io

\* ------------------------------------------------------- pure functions

\* bench.MsgsPerClient: an even split, the first numMsgs % numClients clients
\* taking one more.
MsgsPerClient(total, clients) ==
  [i \in 1..clients |-> (total \div clients) + (IF i <= total % clients THEN 1 ELSE 0)]

RECURSIVE SumSeq(_)
SumSeq(s) == IF s = <<>> THEN 0 ELSE Head(s) + SumSeq(Tail(s))

\* The spawn loops, lines 122 and 131: for i := 0; i < n; i++ runs worker
\* number w (counted from 1) when w <= n.
InLoop(w, n) == w <= n

PubSharesReversed(total, clients) ==
  [p \in 1..clients |-> MsgsPerClient(total, clients)[clients + 1 - p]]

\* main, lines 130-133: pubCounts := bench.MsgsPerClient(numMsgs, numPubs), and
\* publisher i is started with pubCounts[i].
PubShares(total, clients) ==
  [p \in 1..clients |-> MsgsPerClient(total, clients)[p]]

DoneWgAddOneMore == numPubs + numSubs + 1

\* main, line 115: the argument of donewg.Add.
DoneWgAdd == numPubs + numSubs

\* sync.WaitGroup.Wait() returns when the counter is zero: startwg.Wait() at
\* lines 126 and 138, donewg.Wait() at line 139.
StartWaitReturnsEarly == TRUE

StartWaitReturns == startwg = 0

DoneWaitReturnsEarly == TRUE

DoneWaitReturns == donewg = 0

SentinelNeededOffByOne(sr) == sr > 1

SentinelNeededAlways(sr) == TRUE

\* runSubscriber, line 264: the test sr > 0 on the decremented qSubsLeft.
SentinelNeeded(sr) == sr > 0

\* ------------------------------------------------------------------ Init

Flags ==
  [np : 0..MaxPubs, ns : 0..MaxSubs, n : 0..MaxMsgs,
   sync : BOOLEAN, queue : BOOLEAN, io : BOOLEAN]

\* The state when main reaches line 112: flags parsed, no goroutine started,
\* the package variables zero.
RunInit ==
  /\ flags \in Flags
  /\ retained \in 0..MaxRetained
  /\ mainPc = "start"
  /\ startwg = 0
  /\ donewg = 0
  /\ aborted = FALSE
  /\ failed = FALSE
  /\ qTotalRecv = 0
  /\ qSubsLeft = 0
  /\ pubCounts = <<>>
  /\ pubPc = [p \in Pubs |-> "idle"]
  /\ pubNumMsgs = [p \in Pubs |-> 0]
  /\ pubI = [p \in Pubs |-> 0]
  /\ published = [p \in Pubs |-> 0]
  /\ acksPending = [p \in Pubs |-> 0]
  /\ acbSending = [p \in Pubs |-> FALSE]
  /\ subPc = [s \in Subs |-> "idle"]
  /\ subOpen = [s \in Subs |-> FALSE]
  /\ received = [s \in Subs |-> 0]
  /\ ch = [s \in Subs |-> <<>>]
  /\ cbPc = [s \in Subs |-> "idle"]
  /\ subStart = [s \in Subs |-> 0]
  /\ subEnd = [s \in Subs |-> 0]
  /\ inbox = [s \in Subs |-> 0]
  /\ qPending = 0
  /\ groupMade = FALSE
  /\ pubSamples = [p \in Pubs |-> <<>>]
  /\ subSamples = [s \in Subs |-> <<>>]
  /\ closed = FALSE
  /\ reported = FALSE
  /\ sentinels = [s \in Subs |-> 0]
  /\ endSignals = [s \in Subs |-> {}]
  /\ observedN = 0

Init ==
  /\ RunInit
  /\ shTotal = 0
  /\ shClients = 0
  /\ shCounts = <<>>
  /\ shDone = FALSE

\* ------------------------------------------------------------------ main

\* main, lines 115-125: donewg.Add, qSubsLeft, startwg.Add, go runSubscriber.
MainSpawnSubs ==
  /\ ~aborted
  /\ mainPc = "start"
  /\ donewg' = donewg + DoneWgAdd
  /\ qSubsLeft' = IF isQueue THEN numSubs ELSE qSubsLeft
  /\ startwg' = startwg + numSubs
  /\ subPc' = [s \in Subs |-> IF InLoop(s, numSubs) THEN "connect" ELSE subPc[s]]
  /\ mainPc' = "waitSubs"
  /\ UNCHANGED <<cfgVars, aborted, failed, qTotalRecv, pubCounts, closed, reported,
                 pubVars, subOpen, received, ch, cbPc, subStart, subEnd,
                 srvVars, aggVars, ghostVars, shVars>>

\* main, lines 126-134: startwg.Wait() returns, then startwg.Add, MsgsPerClient,
\* go runPublisher with pubCounts[i].
MainSpawnPubs ==
  /\ ~aborted
  /\ mainPc = "waitSubs"
  /\ StartWaitReturns
  /\ startwg' = startwg + numPubs
  /\ pubCounts' = MsgsPerClient(numMsgs, numPubs)
  /\ pubPc' = [p \in Pubs |-> IF InLoop(p, numPubs) THEN "connect" ELSE pubPc[p]]
  /\ pubNumMsgs' = [p \in Pubs |-> IF InLoop(p, numPubs)
                                     THEN PubShares(numMsgs, numPubs)[p]
                                     ELSE pubNumMsgs[p]]
  /\ mainPc' = "waitPubs"
  /\ UNCHANGED <<cfgVars, donewg, aborted, failed, qTotalRecv, qSubsLeft, closed,
                 reported, pubI, published, acksPending, acbSending,
                 subVars, srvVars, aggVars, ghostVars, shVars>>

\* main, line 138: the second startwg.Wait() returns.
MainStartWait ==
  /\ ~aborted
  /\ mainPc = "waitPubs"
  /\ StartWaitReturns
  /\ mainPc' = "waitDone"
  /\ UNCHANGED <<cfgVars, startwg, donewg, aborted, failed, qTotalRecv, qSubsLeft,
                 pubCounts, closed, reported, pubVars, subVars, srvVars, aggVars,
                 ghostVars, shVars>>

\* main, line 139: donewg.Wait() returns.
MainDoneWait ==
  /\ ~aborted
  /\ mainPc = "waitDone"
  /\ DoneWaitReturns
  /\ mainPc' = "close"
  /\ UNCHANGED <<cfgVars, startwg, donewg, aborted, failed, qTotalRecv, qSubsLeft,
                 pubCounts, closed, reported, pubVars, subVars, srvVars, aggVars,
                 ghostVars, shVars>>

\* main, line 141: benchmark.Close().
MainClose ==
  /\ ~aborted
  /\ mainPc = "close"
  /\ closed' = TRUE
  /\ mainPc' = "report"
  /\ UNCHANGED <<cfgVars, startwg, donewg, aborted, failed, qTotalRecv, qSubsLeft,
                 pubCounts, reported, pubVars, subVars, srvVars, aggVars,
                 ghostVars, shVars>>

\* main, line 142: fmt.Print(benchmark.Report()).
MainReport ==
  /\ ~aborted
  /\ mainPc = "report"
  /\ reported' = TRUE
  /\ mainPc' = "exit"
  /\ UNCHANGED <<cfgVars, startwg, donewg, aborted, failed, qTotalRecv, qSubsLeft,
                 pubCounts, closed, pubVars, subVars, srvVars, aggVars,
                 ghostVars, shVars>>

\* ------------------------------------------------------------ the server

\* The server takes one published message: every open plain subscription gets
\* a copy; in a queue-group run it joins the group's pool, for one member.
Route(inb) ==
  IF isQueue THEN inb ELSE [s \in Subs |-> IF subOpen[s] THEN inb[s] + 1 ELSE inb[s]]

RoutePool(q) == IF isQueue THEN q + 1 ELSE q

\* ------------------------------------------------------------ runPublisher

\* runPublisher, lines 152-176: nats.Connect, stan.Connect, startwg.Done(),
\* published := 0, start := time.Now().
PubConnect(p) ==
  /\ ~aborted
  /\ pubPc[p] = "connect"
  /\ startwg' = startwg - 1
  /\ published' = [published EXCEPT ![p] = 0]
  /\ pubPc' = [pubPc EXCEPT ![p] = "publish"]
  /\ UNCHANGED <<cfgVars, mainPc, donewg, aborted, failed, qTotalRecv, qSubsLeft,
                 pubCounts, closed, reported, pubNumMsgs, pubI, acksPending,
                 acbSending, subVars, srvVars, aggVars, ghostVars, shVars>>

\* runPublisher, lines 153-155 and 160-162: a connect error is fatal.
PubConnectFail(p) ==
  /\ ~aborted
  /\ pubPc[p] = "connect"
  /\ failed' = TRUE
  /\ aborted' = TRUE
  /\ UNCHANGED <<cfgVars, mainVars, qTotalRecv, qSubsLeft, pubVars, subVars,
                 srvVars, aggVars, ghostVars, shVars>>

\* runPublisher, lines 197-203: one iteration of the sync loop, snc.Publish
\* returning nil.
PubPublishSync(p) ==
  /\ ~aborted
  /\ pubPc[p] = "publish"
  /\ syncPub
  /\ pubI[p] < pubNumMsgs[p]
  /\ inbox' = Route(inbox)
  /\ qPending' = RoutePool(qPending)
  /\ published' = [published EXCEPT ![p] = @ + 1]
  /\ pubI' = [pubI EXCEPT ![p] = @ + 1]
  /\ UNCHANGED <<cfgVars, mainVars, aborted, failed, qTotalRecv, qSubsLeft,
                 pubPc, pubNumMsgs, acksPending, acbSending, subVars,
                 groupMade, aggVars, ghostVars, shVars>>

\* runPublisher, lines 189-194: one iteration of the async loop, PublishAsync
\* returning nil; it blocks while maxPubAcksInflight acks are outstanding.
PubPublishAsync(p) ==
  /\ ~aborted
  /\ pubPc[p] = "publish"
  /\ ~syncPub
  /\ pubI[p] < pubNumMsgs[p]
  /\ acksPending[p] < DefaultMaxPubAcksInflight
  /\ inbox' = Route(inbox)
  /\ qPending' = RoutePool(qPending)
  /\ acksPending' = [acksPending EXCEPT ![p] = @ + 1]
  /\ pubI' = [pubI EXCEPT ![p] = @ + 1]
  /\ UNCHANGED <<cfgVars, mainVars, aborted, failed, qTotalRecv, qSubsLeft,
                 pubPc, pubNumMsgs, published, acbSending, subVars,
                 groupMade, aggVars, ghostVars, shVars>>

\* runPublisher, lines 190-193 and 198-201: Publish / PublishAsync returns an
\* error, log.Fatal.
PubPublishFail(p) ==
  /\ ~aborted
  /\ pubPc[p] = "publish"
  /\ pubI[p] < pubNumMsgs[p]
  /\ failed' = TRUE
  /\ aborted' = TRUE
  /\ UNCHANGED <<cfgVars, mainVars, qTotalRecv, qSubsLeft, pubVars, subVars,
                 srvVars, aggVars, ghostVars, shVars>>

\* The loops' exit, lines 189 / 197: i < numMsgs is false.  The async worker
\* goes to <-ch (line 195), the sync worker to line 206.
PubLoopExit(p) ==
  /\ ~aborted
  /\ pubPc[p] = "publish"
  /\ pubI[p] >= pubNumMsgs[p]
  /\ pubPc' = [pubPc EXCEPT ![p] = IF syncPub THEN "sample" ELSE "waitAck"]
  /\ UNCHANGED <<cfgVars, mainVars, aborted, failed, qTotalRecv, qSubsLeft,
                 pubNumMsgs, pubI, published, acksPending, acbSending,
                 subVars, srvVars, aggVars, ghostVars, shVars>>

AckTargetOneEarly(pub, n) == pub >= n - 1

\* acb, line 185: the test published >= numMsgs.
AckTarget(pub, n) == pub >= n

\* acb, lines 180-188, called with err == nil: published++, and at
\* published >= numMsgs the callback goes to ch <- true.  The client runs
\* one acb at a time.
Acb(p) ==
  /\ ~aborted
  /\ acksPending[p] > 0
  /\ ~acbSending[p]
  /\ acksPending' = [acksPending EXCEPT ![p] = @ - 1]
  /\ published' = [published EXCEPT ![p] = @ + 1]
  /\ acbSending' = [acbSending EXCEPT ![p] = AckTarget(published'[p], pubNumMsgs[p])]
  /\ UNCHANGED <<cfgVars, mainVars, aborted, failed, qTotalRecv, qSubsLeft,
                 pubPc, pubNumMsgs, pubI, subVars, srvVars, aggVars,
                 ghostVars, shVars>>

\* acb, lines 181-183, called with an error: log.Fatalf.
AcbFail(p) ==
  /\ ~aborted
  /\ acksPending[p] > 0
  /\ ~acbSending[p]
  /\ failed' = TRUE
  /\ aborted' = TRUE
  /\ UNCHANGED <<cfgVars, mainVars, qTotalRecv, qSubsLeft, pubVars, subVars,
                 srvVars, aggVars, ghostVars, shVars>>

\* ch is unbuffered: acb's ch <- true (line 186) and the worker's <-ch
\* (line 195) happen together.
PubAckRendezvous(p) ==
  /\ ~aborted
  /\ pubPc[p] = "waitAck"
  /\ acbSending[p]
  /\ acbSending' = [acbSending EXCEPT ![p] = FALSE]
  /\ pubPc' = [pubPc EXCEPT ![p] = "sample"]
  /\ UNCHANGED <<cfgVars, mainVars, aborted, failed, qTotalRecv, qSubsLeft,
                 pubNumMsgs, pubI, published, acksPending, subVars,
                 srvVars, aggVars, ghostVars, shVars>>

\* time.Now() as a publisher reads it: the worker's own progress, 0 at line 176
\* (start) and the number of publish calls made at line 206.
PubTimeNow(p) == pubI[p]

\* time.Now() as mcb reads it: the number of the delivery being handled.  The
\* callbacks of one subscription run one after another, so a later read never
\* gives a smaller value.
SubTimeNow(s, rcv) == rcv[s]

\* bench.NewSample(numMsgs, msgSize, start, end, nc), the fields the model keeps.
NewSample(n, start, end) == [n |-> n, start |-> start, end |-> end]

AddSampleDropped(samples, w, sample) == samples

\* benchmark.AddPubSample / benchmark.AddSubSample, lines 206 and 260: the
\* sample joins the benchmark's samples of worker w.
AddSample(samples, w, sample) == [samples EXCEPT ![w] = Append(@, sample)]

\* runPublisher, line 206: benchmark.AddPubSample(NewSample(numMsgs, ..., start,
\* time.Now(), ...)).
PubAddSample(p) ==
  /\ ~aborted
  /\ pubPc[p] = "sample"
  /\ pubSamples' = AddSample(pubSamples, p, NewSample(pubNumMsgs[p], 0, PubTimeNow(p)))
  /\ pubPc' = [pubPc EXCEPT ![p] = "close"]
  /\ UNCHANGED <<cfgVars, mainVars, aborted, failed, qTotalRecv, qSubsLeft,
                 pubNumMsgs, pubI, published, acksPending, acbSending,
                 subVars, srvVars, subSamples, ghostVars, shVars>>

\* runPublisher, lines 207-209: snc.Close(), nc.Close(), donewg.Done().
PubDone(p) ==
  /\ ~aborted
  /\ pubPc[p] = "close"
  /\ donewg' = donewg - 1
  /\ pubPc' = [pubPc EXCEPT ![p] = "done"]
  /\ UNCHANGED <<cfgVars, mainPc, startwg, pubCounts, closed, reported, aborted, failed,
                 qTotalRecv, qSubsLeft, pubNumMsgs, pubI, published, acksPending,
                 acbSending, subVars, srvVars, aggVars, ghostVars, shVars>>

\* ----------------------------------------------------------- runSubscriber

\* runSubscriber, lines 213-230: nats.Connect, stan.Connect, ch := make(chan
\* time.Time, 2), received := 0.
SubConnect(s) ==
  /\ ~aborted
  /\ subPc[s] = "connect"
  /\ ch' = [ch EXCEPT ![s] = <<>>]
  /\ received' = [received EXCEPT ![s] = 0]
  /\ subPc' = [subPc EXCEPT ![s] = "subscribe"]
  /\ UNCHANGED <<cfgVars, mainVars, aborted, failed, qTotalRecv, qSubsLeft,
                 pubVars, subOpen, cbPc, subStart, subEnd, srvVars, aggVars,
                 ghostVars, shVars>>

\* runSubscriber, lines 214-216 and 221-223: a connect error is fatal.
SubConnectFail(s) ==
  /\ ~aborted
  /\ subPc[s] = "connect"
  /\ failed' = TRUE
  /\ aborted' = TRUE
  /\ UNCHANGED <<cfgVars, mainVars, qTotalRecv, qSubsLeft, pubVars, subVars,
                 srvVars, aggVars, ghostVars, shVars>>

\* What the subject replays to a new subscription: everything retained with
\* stan.DeliverAllAvailable() (line 251), nothing with -io (line 249).
Replayed == IF ignoreOld THEN 0 ELSE retained

\* runSubscriber, lines 247-252: snc.QueueSubscribe returns a subscription.  A
\* plain subscription is sent the replay; the first member of a queue group
\* creates the group, whose pool starts with the replay.
SubSubscribe(s) ==
  /\ ~aborted
  /\ subPc[s] = "subscribe"
  /\ subOpen' = [subOpen EXCEPT ![s] = TRUE]
  /\ inbox' = [inbox EXCEPT ![s] = IF isQueue THEN @ ELSE Replayed]
  /\ qPending' = IF isQueue /\ ~groupMade THEN qPending + Replayed ELSE qPending
  /\ groupMade' = (groupMade \/ isQueue)
  /\ subPc' = [subPc EXCEPT ![s] = "ready"]
  /\ UNCHANGED <<cfgVars, mainVars, aborted, failed, qTotalRecv, qSubsLeft,
                 pubVars, received, ch, cbPc, subStart, subEnd, aggVars,
                 ghostVars, shVars>>

\* runSubscriber, lines 253-255: a subscribe error is fatal.
SubSubscribeFail(s) ==
  /\ ~aborted
  /\ subPc[s] = "subscribe"
  /\ failed' = TRUE
  /\ aborted' = TRUE
  /\ UNCHANGED <<cfgVars, mainVars, qTotalRecv, qSubsLeft, pubVars, subVars,
                 srvVars, aggVars, ghostVars, shVars>>

\* runSubscriber, line 256: startwg.Done().
SubReady(s) ==
  /\ ~aborted
  /\ subPc[s] = "ready"
  /\ startwg' = startwg - 1
  /\ subPc' = [subPc EXCEPT ![s] = "recvStart"]
  /\ UNCHANGED <<cfgVars, mainPc, donewg, pubCounts, closed, reported, aborted, failed,
                 qTotalRecv, qSubsLeft, pubVars, subOpen, received, ch, cbPc,
                 subStart, subEnd, srvVars, aggVars, ghostVars, shVars>>

ChanSendFront(q, v) == <<v>> \o q

\* ch <- v on the buffered channel of line 227 (lines 234, 238, 242): the value
\* joins the end of the queue, and <-ch takes from its head.
ChanSend(q, v) == Append(q, v)

TargetReachedAlways(count, n) == TRUE

\* mcb, lines 237 and 241: the completion test, count >= numMsgs, on the
\* value returned by the atomic add or on received.
TargetReached(count, n) == count >= n

\* A message is waiting for subscription s.
Available(s) == IF isQueue THEN qPending > 0 ELSE inbox[s] > 0

\* mcb, lines 232-236 and 240-241: the server hands the next message to an open
\* subscription whose callback is not running.  received++; on the first
\* delivery ch <- time.Now(); then a queue member goes to the atomic add, and a
\* plain subscriber compares received with numMsgs.
Deliver(s) ==
  /\ ~aborted
  /\ subOpen[s]
  /\ cbPc[s] = "idle"
  /\ Available(s)
  /\ received[s] + 1 = 1 => Len(ch[s]) < ChanCap
  /\ inbox' = [inbox EXCEPT ![s] = IF isQueue THEN @ ELSE @ - 1]
  /\ qPending' = IF isQueue THEN qPending - 1 ELSE qPending
  /\ received' = [received EXCEPT ![s] = @ + 1]
  /\ ch' = [ch EXCEPT ![s] = IF received'[s] = 1 THEN ChanSend(@, SubTimeNow(s, received')) ELSE @]
  /\ cbPc' = [cbPc EXCEPT ![s] =
                IF isQueue THEN "add"
                ELSE IF TargetReached(received'[s], numMsgs) THEN "sendEnd" ELSE "idle"]
  /\ UNCHANGED <<cfgVars, mainVars, aborted, failed, qTotalRecv, qSubsLeft,
                 pubVars, subPc, subOpen, subStart, subEnd, groupMade, aggVars,
                 ghostVars, shVars>>

\* A read-modify-write that is not atomic: of two callbacks that are at the add
\* together, the first one's increment is overwritten.
AddInt32Racy(v) == IF Cardinality({t \in Subs : cbPc[t] = "add"}) > 1 THEN v ELSE v + 1

AddInt32Twice(v) == v + 2

\* atomic.AddInt32(&qTotalRecv, 1), line 237: the new value.
AddInt32(v) == v + 1

\* mcb, line 237: atomic.AddInt32(&qTotalRecv, 1) >= int32(numMsgs).
McbAdd(s) ==
  /\ ~aborted
  /\ cbPc[s] = "add"
  /\ qTotalRecv' = AddInt32(qTotalRecv)
  /\ observedN' = IF qTotalRecv' = numMsgs THEN observedN + 1 ELSE observedN
  /\ cbPc' = [cbPc EXCEPT ![s] = IF TargetReached(qTotalRecv', numMsgs) THEN "sendEnd" ELSE "idle"]
  /\ UNCHANGED <<cfgVars, mainVars, aborted, failed, qSubsLeft, pubVars,
                 subPc, subOpen, received, ch, subStart, subEnd, srvVars, aggVars,
                 sentinels, endSignals, shVars>>

\* mcb, lines 238 / 242: ch <- time.Now(), which waits while ch holds two values.
McbSendEnd(s) ==
  /\ ~aborted
  /\ cbPc[s] = "sendEnd"
  /\ Len(ch[s]) < ChanCap
  /\ ch' = [ch EXCEPT ![s] = ChanSend(@, SubTimeNow(s, received))]
  /\ endSignals' = [endSignals EXCEPT ![s] = @ \cup {received[s]}]
  /\ cbPc' = [cbPc EXCEPT ![s] = "idle"]
  /\ UNCHANGED <<cfgVars, mainVars, aborted, failed, qTotalRecv, qSubsLeft, pubVars,
                 subPc, subOpen, received, subStart, subEnd, srvVars, aggVars,
                 sentinels, observedN, shVars>>

\* runSubscriber, line 258: start := <-ch.
SubRecvStart(s) ==
  /\ ~aborted
  /\ subPc[s] = "recvStart"
  /\ Len(ch[s]) > 0
  /\ subStart' = [subStart EXCEPT ![s] = Head(ch[s])]
  /\ ch' = [ch EXCEPT ![s] = Tail(@)]
  /\ subPc' = [subPc EXCEPT ![s] = "recvEnd"]
  /\ UNCHANGED <<cfgVars, mainVars, aborted, failed, qTotalRecv, qSubsLeft,
                 pubVars, subOpen, received, cbPc, subEnd, srvVars, aggVars,
                 ghostVars, shVars>>

\* runSubscriber, line 259: end := <-ch.
SubRecvEnd(s) ==
  /\ ~aborted
  /\ subPc[s] = "recvEnd"
  /\ Len(ch[s]) > 0
  /\ subEnd' = [subEnd EXCEPT ![s] = Head(ch[s])]
  /\ ch' = [ch EXCEPT ![s] = Tail(@)]
  /\ subPc' = [subPc EXCEPT ![s] = "sample"]
  /\ UNCHANGED <<cfgVars, mainVars, aborted, failed, qTotalRecv, qSubsLeft,
                 pubVars, subOpen, received, cbPc, subStart, srvVars, aggVars,
                 ghostVars, shVars>>

\* runSubscriber, lines 260 and 263: benchmark.AddSubSample(NewSample(received,
\* ..., start, end, ...)), then the isQueue test.
SubAddSample(s) ==
  /\ ~aborted
  /\ subPc[s] = "sample"
  /\ subSamples' = AddSample(subSamples, s, NewSample(received[s], subStart[s], subEnd[s]))
  /\ subPc' = [subPc EXCEPT ![s] = IF isQueue THEN "dec" ELSE "close"]
  /\ UNCHANGED <<cfgVars, mainVars, aborted, failed, qTotalRecv, qSubsLeft,
                 pubVars, subOpen, received, ch, cbPc, subStart, subEnd, srvVars,
                 pubSamples, ghostVars, shVars>>

SubInt32Twice(v) == v - 2

\* atomic.AddInt32(&qSubsLeft, -1), line 264: the new value.
SubInt32(v) == v - 1

\* runSubscriber, line 264: sr := atomic.AddInt32(&qSubsLeft, -1); sr > 0.
SubDec(s) ==
  /\ ~aborted
  /\ subPc[s] = "dec"
  /\ qSubsLeft' = SubInt32(qSubsLeft)
  /\ subPc' = [subPc EXCEPT ![s] = IF SentinelNeeded(qSubsLeft') THEN "closeSub" ELSE "close"]
  /\ UNCHANGED <<cfgVars, mainVars, aborted, failed, qTotalRecv, pubVars,
                 subOpen, received, ch, cbPc, subStart, subEnd, srvVars, aggVars,
                 ghostVars, shVars>>

SubscriptionCloseSkipped(open, s) == open

\* sub.Close(), line 267: the server drops the member from the group before
\* the call returns.
SubscriptionClose(open, s) == [open EXCEPT ![s] = FALSE]

\* runSubscriber, line 267: sub.Close().
SubCloseSub(s) ==
  /\ ~aborted
  /\ subPc[s] = "closeSub"
  /\ subOpen' = SubscriptionClose(subOpen, s)
  /\ subPc' = [subPc EXCEPT ![s] = "publish"]
  /\ UNCHANGED <<cfgVars, mainVars, aborted, failed, qTotalRecv, qSubsLeft,
                 pubVars, received, ch, cbPc, subStart, subEnd, srvVars, aggVars,
                 ghostVars, shVars>>

\* runSubscriber, line 268: snc.Publish(subj, []byte("done")) returning nil.
SubPublishDone(s) ==
  /\ ~aborted
  /\ subPc[s] = "publish"
  /\ inbox' = Route(inbox)
  /\ qPending' = RoutePool(qPending)
  /\ sentinels' = [sentinels EXCEPT ![s] = @ + 1]
  /\ subPc' = [subPc EXCEPT ![s] = "close"]
  /\ UNCHANGED <<cfgVars, mainVars, aborted, failed, qTotalRecv, qSubsLeft,
                 pubVars, subOpen, received, ch, cbPc, subStart, subEnd, groupMade,
                 aggVars, endSignals, observedN, shVars>>

\* runSubscriber, line 268: snc.Publish returns an error, which the statement
\* drops; the worker goes on to line 271.
SubPublishDoneFail(s) ==
  /\ ~aborted
  /\ subPc[s] = "publish"
  /\ failed' = TRUE
  /\ subPc' = [subPc EXCEPT ![s] = "close"]
  /\ UNCHANGED <<cfgVars, mainVars, aborted, qTotalRecv, qSubsLeft,
                 pubVars, subOpen, received, ch, cbPc, subStart, subEnd, srvVars,
                 aggVars, ghostVars, shVars>>

\* runSubscriber, lines 271-273: snc.Close(), nc.Close(), donewg.Done().
SubDone(s) ==
  /\ ~aborted
  /\ subPc[s] = "close"
  /\ subOpen' = [subOpen EXCEPT ![s] = FALSE]
  /\ donewg' = donewg - 1
  /\ subPc' = [subPc EXCEPT ![s] = "done"]
  /\ UNCHANGED <<cfgVars, mainPc, startwg, pubCounts, closed, reported, aborted, failed,
                 qTotalRecv, qSubsLeft, pubVars, received, ch, cbPc, subStart,
                 subEnd, srvVars, aggVars, ghostVars, shVars>>

\* A worker holds a streaming connection: from stan.Connect to snc.Close().
PubConnected(p) == pubPc[p] \in {"publish", "waitAck", "sample", "close"}

SubConnected(s) ==
  subPc[s] \in {"subscribe", "ready", "recvStart", "recvEnd", "sample", "dec",
                "closeSub", "publish", "close"}

\* The connection-lost handlers, lines 157-159 and 218-220: log.Fatalf.
ConnectionLost ==
  /\ ~aborted
  /\ (\E p \in Pubs : PubConnected(p)) \/ (\E s \in Subs : SubConnected(s))
  /\ failed' = TRUE
  /\ aborted' = TRUE
  /\ UNCHANGED <<cfgVars, mainVars, qTotalRecv, qSubsLeft, pubVars, subVars,
                 srvVars, aggVars, ghostVars, shVars>>

\* --------------------------------------------------------- specifications

MainStep ==
  \/ MainSpawnSubs
  \/ MainSpawnPubs
  \/ MainStartWait
  \/ MainDoneWait
  \/ MainClose
  \/ MainReport

PubStep(p) ==
  \/ PubConnect(p)
  \/ PubPublishSync(p)
  \/ PubPublishAsync(p)
  \/ PubLoopExit(p)
  \/ Acb(p)
  \/ PubAckRendezvous(p)
  \/ PubAddSample(p)
  \/ PubDone(p)

SubStep(s) ==
  \/ SubConnect(s)
  \/ SubSubscribe(s)
  \/ SubReady(s)
  \/ Deliver(s)
  \/ McbAdd(s)
  \/ McbSendEnd(s)
  \/ SubRecvStart(s)
  \/ SubRecvEnd(s)
  \/ SubAddSample(s)
  \/ SubDec(s)
  \/ SubCloseSub(s)
  \/ SubPublishDone(s)
  \/ SubDone(s)

Failure ==
  \/ \E p \in Pubs : PubConnectFail(p) \/ PubPublishFail(p) \/ AcbFail(p)
  \/ \E s \in Subs : SubConnectFail(s) \/ SubSubscribeFail(s) \/ SubPublishDoneFail(s)
  \/ ConnectionLost

\* Runs in which no call fails.
NextOK ==
  \/ MainStep
  \/ \E p \in Pubs : PubStep(p)
  \/ \E s \in Subs : SubStep(s)

Next ==
  \/ NextOK
  \/ Failure

Spec == Init /\ [][Next]_vars

\* The split studied on its own: main's lines 130-133 applied to inputs beyond
\* those the run bounds reach, with no worker started.
ShareTotals == 0..MaxShareTotal \cup {1000}

ShareInit ==
  /\ RunInit
  /\ flags = [np |-> 0, ns |-> 0, n |-> 0, sync |-> FALSE, queue |-> FALSE, io |-> FALSE]
  /\ retained = 0
  /\ shTotal \in ShareTotals
  /\ shClients \in 0..MaxShareClients
  /\ shCounts = <<>>
  /\ shDone = FALSE

ShareApply ==
  /\ ~shDone
  /\ shCounts' = PubShares(shTotal, shClients)
  /\ shDone' = TRUE
  /\ UNCHANGED <<cfgVars, mainVars, aborted, failed, qTotalRecv, qSubsLeft, pubVars,
                 subVars, srvVars, aggVars, ghostVars, shTotal, shClients>>

ShareSpec == ShareInit /\ [][ShareApply]_vars

\* Every goroutine that can take a step eventually takes one, and the server
\* eventually delivers a message an open subscription is waiting for.
FairSpec == Init /\ [][NextOK]_vars /\ WF_vars(NextOK)

\* ------------------------------------------------------------- the claims

\* The workers main starts.
PubSet == {p \in Pubs : p <= numPubs}

SubSet == {s \in Subs : s <= numSubs}

\* A subscriber has subscribed and called startwg.Done().
SubIsReady(s) == subPc[s] \notin {"idle", "connect", "subscribe", "ready"}

AllWorkersDone ==
  /\ \A p \in PubSet : pubPc[p] = "done"
  /\ \A s \in SubSet : subPc[s] = "done"

AllSubsDone == \A s \in SubSet : subPc[s] = "done"

RECURSIVE SumOver(_, _)
SumOver(f, S) ==
  IF S = {} THEN 0
  ELSE LET x == CHOOSE y \in S : TRUE IN f[x] + SumOver(f, S \ {x})

\* The deliveries whose atomic add has been executed.
AddsDone == SumOver(received, Subs) - Cardinality({s \in Subs : cbPc[s] = "add"})

\* The "done" messages published by the members, line 268.
SentinelsPublished == SumOver(sentinels, Subs)

\* The publish calls made by the publishers.
MessagesPublished == SumOver(pubI, Pubs)

\* C1: while some subscriber has not yet subscribed and signalled readiness, no
\* publisher goroutine has been started and no publisher has published.
C1_StartBarrier ==
  (\E p \in Pubs : pubPc[p] # "idle" \/ pubI[p] > 0)
     => (\A s \in SubSet : SubIsReady(s))

C1_Witness ==
  /\ numSubs = 2
  /\ \E p \in PubSet : pubI[p] > 0
  /\ \A s \in SubSet : SubIsReady(s)

\* C2: in a queue-group run with K >= 1 members and numMsgs >= 1 in which no
\* call fails, so that the publishers publish their numMsgs messages and every
\* message and sentinel is taken by one member with an open subscription,
\* every member eventually calls donewg.Done(), whichever members the
\* deliveries go to.
C2_QueueMembersTerminate ==
  (isQueue /\ numSubs >= 1 /\ numMsgs >= 1 /\ numPubs >= 1) => <>AllSubsDone

\* One member took both published messages, the other only the sentinel.
C2_Witness ==
  /\ isQueue
  /\ numSubs = 2
  /\ numMsgs = 2
  /\ numPubs >= 1
  /\ Replayed = 0
  /\ received[1] = 2
  /\ received[2] = 1
  /\ sentinels[1] = 1
  /\ AllSubsDone

\* C3: a plain (non-grouped) subscriber sends its completion time exactly once,
\* from the callback of delivery number numMsgs and from no other delivery.
C3_OnlyNthDeliverySignals ==
  \A s \in SubSet : (~isQueue /\ numMsgs >= 1) => endSignals[s] \subseteq {numMsgs}

\* C4: in a queue-group run qTotalRecv counts every executed add once (none
\* lost, none counted twice), at most one AddInt32 call ever returns numMsgs,
\* and once the counter has reached numMsgs >= 1 exactly one call has.
C4_CounterReachesNOnce ==
  isQueue =>
     /\ qTotalRecv = AddsDone
     /\ observedN <= 1
     /\ qTotalRecv < numMsgs => observedN = 0
     /\ (numMsgs >= 1 /\ qTotalRecv >= numMsgs) => observedN = 1

C4_Witness ==
  /\ isQueue
  /\ numSubs = 2
  /\ numMsgs = 2
  /\ received[1] >= 1
  /\ received[2] >= 1
  /\ qTotalRecv > numMsgs
  /\ observedN = 1

\* C5: benchmark.Close() and the report come only after every publisher and
\* every subscriber has called donewg.Done(), and once the benchmark is closed
\* no sample is added.
C5_FinalizeAfterBarrier ==
  [][ /\ (closed' => AllWorkersDone')
      /\ (reported' => closed')
      /\ (closed => (pubSamples' = pubSamples /\ subSamples' = subSamples)) ]_vars

C5_Witness ==
  /\ reported
  /\ numPubs = 2
  /\ numSubs = 2
  /\ \A p \in PubSet : Len(pubSamples[p]) = 1
  /\ \A s \in SubSet : Len(subSamples[s]) = 1

\* C6: no worker adds more than one sample, a worker that has called
\* donewg.Done() has added its one sample, a worker never started adds none, and
\* when the benchmark is closed it holds numPubs publisher samples and numSubs
\* subscriber samples.
C6_OneSamplePerWorker ==
  /\ \A p \in Pubs :
       /\ Len(pubSamples[p]) <= 1
       /\ pubPc[p] = "done" => Len(pubSamples[p]) = 1
       /\ p \notin PubSet => Len(pubSamples[p]) = 0
  /\ \A s \in Subs :
       /\ Len(subSamples[s]) <= 1
       /\ subPc[s] = "done" => Len(subSamples[s]) = 1
       /\ s \notin SubSet => Len(subSamples[s]) = 0
  /\ closed =>
       /\ Cardinality({p \in Pubs : Len(pubSamples[p]) = 1}) = numPubs
       /\ Cardinality({s \in Subs : Len(subSamples[s]) = 1}) = numSubs

C6_Witness ==
  /\ closed
  /\ numPubs = 2
  /\ numSubs = 2
  /\ isQueue

\* C7: for total >= 0 and publisherCount > 0 the counts handed to the
\* publishers are publisherCount many, sum to total, differ by at most 1, never
\* grow with the index, and exactly total mod publisherCount of them, the
\* first ones, exceed the last; (1000, 3) gives <<334, 333, 333>>.
C7_Shares ==
  (shDone /\ shClients > 0) =>
     /\ Len(shCounts) = shClients
     /\ SumSeq(shCounts) = shTotal
     /\ \A i, j \in 1..shClients : shCounts[i] - shCounts[j] <= 1
     /\ \A i, j \in 1..shClients : i < j => shCounts[i] >= shCounts[j]
     /\ {i \in 1..shClients : shCounts[i] > shCounts[shClients]} = 1..(shTotal % shClients)
     /\ (shTotal = 1000 /\ shClients = 3) => shCounts = <<334, 333, 333>>

C7_Witness ==
  /\ shDone
  /\ shTotal = 1000
  /\ shClients = 3
  /\ shCounts = <<334, 333, 333>>

\* C8: whenever a connect, subscribe or publish call has failed (or a
\* connection was lost) the process has been ended by log.Fatal, and no report
\* was printed.
C8_FailFast == failed => (aborted /\ ~reported)

\* C8, second half alone: no report is printed in a run in which a call failed.
C8_NoReportAfterFailure == failed => ~reported

\* C9: with 0 publishers and 0 subscribers no worker is ever started, nothing
\* fails, main is never blocked (its next step is enabled until it has printed
\* the report), and the report holds no sample.
C9_EmptyRun ==
  (numPubs = 0 /\ numSubs = 0) =>
     /\ \A p \in Pubs : pubPc[p] = "idle"
     /\ \A s \in Subs : subPc[s] = "idle"
     /\ ~aborted
     /\ mainPc # "exit" => ENABLED MainStep
     /\ \A p \in Pubs : pubSamples[p] = <<>>
     /\ \A s \in Subs : subSamples[s] = <<>>

C9_Witness ==
  /\ numPubs = 0
  /\ numSubs = 0
  /\ numMsgs = MaxMsgs
  /\ reported
  /\ mainPc = "exit"

\* C10 as claimed: in a queue-group run in which the publishers publish numMsgs
\* messages and the subject replays nothing, qTotalRecv never exceeds numMsgs.
C10_NeverExceedsN ==
  (isQueue /\ numSubs >= 1 /\ Replayed = 0) => qTotalRecv <= numMsgs

\* C10 amended: in a queue-group run of K >= 1 members qTotalRecv never exceeds
\* the messages handed to the group: the (at most numMsgs) messages published,
\* the replayed ones and the sentinels, of which every member publishes at most
\* one and all members together at most K - 1; so never more than
\* numMsgs + K - 1 when nothing is replayed.
C10_NeverExceedsNPlusSentinels ==
  (isQueue /\ numSubs >= 1) =>
     /\ qTotalRecv <= MessagesPublished + Replayed + SentinelsPublished
     /\ MessagesPublished <= numMsgs
     /\ \A s \in Subs : sentinels[s] <= 1
     /\ SentinelsPublished <= numSubs - 1
     /\ qTotalRecv <= numMsgs + Replayed + numSubs - 1

C10_Witness ==
  /\ isQueue
  /\ numSubs = 2
  /\ numMsgs >= 1
  /\ Replayed = 0
  /\ qTotalRecv = numMsgs + numSubs - 1

\* The members that have executed the decrement of line 264.
Decremented == {s \in SubSet : isQueue /\ subPc[s] \in {"closeSub", "publish", "close", "done"}}

\* C11: in a queue-group run qSubsLeft is set to numSubs before any subscriber
\* goroutine is started, every member decrements it exactly once, when it
\* completes (after its sample), it only ever decreases after that, and it is
\* never negative.
C11_SubsLeft ==
  /\ [](isQueue =>
          /\ qSubsLeft >= 0
          /\ mainPc = "start" => \A s \in Subs : subPc[s] = "idle"
          /\ mainPc # "start" => qSubsLeft = numSubs - Cardinality(Decremented)
          /\ \A s \in Decremented : Len(subSamples[s]) = 1)
  /\ [][isQueue =>
          /\ mainPc # "start" => qSubsLeft' <= qSubsLeft
          /\ qSubsLeft' # qSubsLeft =>
                \/ mainPc = "start"
                \/ /\ qSubsLeft' = qSubsLeft - 1
                   /\ \E s \in SubSet : subPc[s] = "dec" /\ subPc'[s] # "dec"]_vars

C11_Witness ==
  /\ isQueue
  /\ numSubs = 2
  /\ qSubsLeft = 0
  /\ AllSubsDone

\* A publisher has added its sample and called donewg.Done().
PubFinished(p) == pubPc[p] = "done" /\ Len(pubSamples[p]) = 1

\* C12: in a run in which no call fails and every ack arrives without error,
\* every publisher that main started, sync or async and whatever its share
\* (0 included), eventually adds its sample and calls donewg.Done().
C12_PublishersTerminate ==
  \A p \in Pubs : (pubPc[p] = "connect") ~> PubFinished(p)

\* C12 for the publishers that do terminate: the sync ones, and the async ones
\* with a share of at least 1.
C12_PublishersWithWorkTerminate ==
  \A p \in Pubs :
     (pubPc[p] = "connect" /\ (syncPub \/ pubNumMsgs[p] >= 1)) ~> PubFinished(p)

\* An async publisher with share 0 is at <-ch (line 195) with no ack to come:
\* no acb call will ever send on ch.
C12_StuckAtAck ==
  \E p \in PubSet :
     /\ ~syncPub
     /\ pubNumMsgs[p] = 0
     /\ pubPc[p] = "waitAck"
     /\ acksPending[p] = 0
     /\ ~acbSending[p]

\* An async publisher is past <-ch (line 195).
PubPastAck(p) == ~syncPub /\ pubPc[p] \in {"sample", "close", "done"}

\* C13: an async publisher with share M >= 1 is notified exactly once, by the
\* acb call that brings published to M: acb goes to its send only in the step
\* from M - 1 to M, the worker passes <-ch, reads its end time and adds its
\* sample only with all M acks counted, and once the worker has taken the
\* notification acb never sends again.
C13_SingleNotification ==
  /\ [](\A p \in PubSet :
          (~syncPub /\ pubPc[p] # "idle") =>
             /\ acbSending[p] => (published[p] = pubNumMsgs[p] /\ ~PubPastAck(p))
             /\ PubPastAck(p) => (published[p] = pubNumMsgs[p] /\ acksPending[p] = 0)
             /\ Len(pubSamples[p]) = 1 => published[p] = pubNumMsgs[p]
             /\ published[p] <= pubNumMsgs[p])
  /\ [][\A p \in PubSet :
          ~syncPub =>
             /\ (acbSending'[p] /\ ~acbSending[p]) =>
                   (published[p] = pubNumMsgs[p] - 1 /\ published'[p] = pubNumMsgs[p])
             /\ (PubPastAck(p)' /\ ~PubPastAck(p)) => (acbSending[p] /\ ~acbSending'[p])]_vars

C13_Witness ==
  \E p \in PubSet :
     /\ ~syncPub
     /\ pubNumMsgs[p] = 2
     /\ published[p] = 2
     /\ Len(pubSamples[p]) = 1
     /\ pubPc[p] = "done"

\* C14: a completing member goes on to publish a sentinel if and only if its
\* decrement left qSubsLeft > 0, and the member whose decrement gives 0 goes
\* straight to snc.Close(); the publish call is made only with the member's own
\* subscription closed, a sentinel is published from nowhere else, and a member
\* that has made (or is making) its publish call is delivered nothing any more.
C14_SentinelOrdering ==
  /\ [](\A s \in Subs :
          /\ subPc[s] \in {"closeSub", "publish"} => isQueue
          /\ subPc[s] = "publish" => ~subOpen[s]
          /\ sentinels[s] >= 1 => (~subOpen[s] /\ subPc[s] \in {"close", "done"}))
  /\ [][\A s \in Subs :
          /\ (subPc[s] = "dec" /\ subPc'[s] # "dec") =>
                /\ qSubsLeft' > 0 <=> subPc'[s] = "closeSub"
                /\ qSubsLeft' <= 0 <=> subPc'[s] = "close"
          /\ (subPc'[s] = "closeSub" /\ subPc[s] # "closeSub") => subPc[s] = "dec"
          /\ (subPc'[s] = "publish" /\ subPc[s] # "publish") => subPc[s] = "closeSub"
          /\ sentinels'[s] # sentinels[s] =>
                (subPc[s] = "publish" /\ ~subOpen[s] /\ sentinels'[s] = sentinels[s] + 1)
          /\ (subPc[s] = "publish" \/ sentinels[s] >= 1) =>
                (received'[s] = received[s] /\ ~subOpen'[s])]_vars

\* Member 1 published the sentinel and member 2, which took no other message,
\* was delivered it.
C14_Witness ==
  /\ isQueue
  /\ numSubs = 2
  /\ Replayed = 0
  /\ sentinels[1] = 1
  /\ sentinels[2] = 0
  /\ received[1] = numMsgs
  /\ received[2] = 1
  /\ qSubsLeft = 0
  /\ AllSubsDone

\* The worker has taken its first / its second value from ch.
SubHasStart(s) == subPc[s] \in {"recvEnd", "sample", "dec", "closeSub", "publish", "close", "done"}

SubHasEnd(s) == subPc[s] \in {"sample", "dec", "closeSub", "publish", "close", "done"}

\* C15: for every subscriber, in a queue group or not, the first value it takes
\* from ch is the time of its delivery number 1 and the second is a time sent
\* by a completing callback, also when delivery 1 is the completing one (ch
\* then holds the start before the end); so start <= end in the sample, and no
\* sample is added before the worker has had a delivery.
C15_StartThenEnd ==
  \A s \in SubSet :
     /\ (~SubHasStart(s) /\ Len(ch[s]) >= 1) => Head(ch[s]) = 1
     /\ (~SubHasStart(s) /\ Len(ch[s]) = 2) => ch[s][2] \in endSignals[s]
     /\ (SubHasStart(s) /\ ~SubHasEnd(s) /\ Len(ch[s]) >= 1) => Head(ch[s]) \in endSignals[s]
     /\ SubHasStart(s) => (subStart[s] = 1 /\ received[s] >= 1)
     /\ SubHasEnd(s) =>
           /\ subEnd[s] \in endSignals[s]
           /\ \A e \in endSignals[s] : subEnd[s] <= e
           /\ subStart[s] <= subEnd[s]
           /\ subEnd[s] <= received[s]
     /\ Len(subSamples[s]) = 1 =>
           /\ SubHasEnd(s)
           /\ subSamples[s][1].start = subStart[s]
           /\ subSamples[s][1].end = subEnd[s]
           /\ subSamples[s][1].start <= subSamples[s][1].end
           /\ subSamples[s][1].n >= 1

\* One delivery was both the first and the completing one, while another
\* subscriber completed on its second delivery.
C15_Witness ==
  /\ \E s \in SubSet :
        /\ Len(subSamples[s]) = 1
        /\ subSamples[s][1] = NewSample(1, 1, 1)
  /\ \E s \in SubSet :
        /\ Len(subSamples[s]) = 1
        /\ subSamples[s][1].start = 1
        /\ subSamples[s][1].end = 2

\* C16: in a queue-group run of K >= 1 members no member publishes more than
\* one sentinel; the sentinels published never outnumber the members that
\* decremented qSubsLeft to a positive value; and when all K members have called
\* donewg.Done(), no publish call having failed, exactly K - 1 sentinels were
\* published (none for K = 1), whichever order the members completed in.
C16_SentinelCount ==
  (isQueue /\ numSubs >= 1 /\ mainPc # "start") =>
     /\ \A s \in Subs : sentinels[s] <= 1
     /\ \A s \in Subs \ SubSet : sentinels[s] = 0
     /\ SentinelsPublished <= numSubs - qSubsLeft - (IF qSubsLeft = 0 THEN 1 ELSE 0)
     /\ (AllSubsDone /\ ~failed) => SentinelsPublished = numSubs - 1

\* Member 2 completed first and published the one sentinel of a 2-member run.
C16_Witness ==
  /\ isQueue
  /\ numSubs = 2
  /\ AllSubsDone
  /\ ~failed
  /\ sentinels[2] = 1
  /\ sentinels[1] = 0

\* The sends on ch that the callbacks of subscriber s have made or are waiting
\* to make: the start time of delivery 1, one end time per completing delivery.
SendsOnCh(s) ==
  (IF received[s] >= 1 THEN 1 ELSE 0) + Cardinality(endSignals[s])
     + (IF cbPc[s] = "sendEnd" THEN 1 ELSE 0)

\* mcb is waiting in ch <- time.Now() on a full channel.
McbBlocked(s) == cbPc[s] = "sendEnd" /\ Len(ch[s]) >= ChanCap

\* C17: in a run with numMsgs >= 1 in which the subscribers are delivered only
\* the messages published in the run (at most numMsgs, nothing replayed) and
\* the sentinels, the callbacks of a subscriber, in a queue group or not, make
\* at most 2 sends on ch, ch never holds more than 2 values and no callback
\* ever waits on a full ch.
C17_McbNeverBlocks ==
  (numMsgs >= 1 /\ Replayed = 0) =>
     \A s \in Subs :
        /\ SendsOnCh(s) <= ChanCap
        /\ Len(ch[s]) <= ChanCap
        /\ ~McbBlocked(s)

\* A member whose first delivery was the sentinel holds both its times in ch,
\* not yet taken by the worker.
C17_Witness ==
  /\ isQueue
  /\ numSubs = 2
  /\ numMsgs = 2
  /\ Replayed = 0
  /\ sentinels[1] = 1
  /\ received[2] = 1
  /\ ch[2] = <<1, 1>>
  /\ subPc[2] = "recvStart"

====
